---- MODULE Spec2Model ----
(***************************************************************************)
(* Persistent namespace creation of the kata agent (src/agent/src/         *)
(* namespace.rs): the Namespace builder, Namespace::setup (worker thread), *)
(* write_mappings, and the fork/pipe handshake of setup_in_userns.         *)
(*                                                                         *)
(* Texts are sequences of one-character strings, paths are sequences of    *)
(* path components; the empty String / empty path is << >>.                *)
(***************************************************************************)
EXTENDS Integers, Sequences, FiniteSets, TLC

\* ------------------------------------------------------------------ bounds
\* dependent namespaces passed to one setup_in_userns call
MaxDeps == 1
\* children of the calling process other than the one forked by the call
MaxOtherChildren == 1
\* entries of a mapping list handed to write_mappings
MaxMapLen == 2

\* --------------------------------------------------------------- constants
PERSISTENT_NS_DIR == <<"var", "run", "sandbox-ns">>
OtherDir == <<"tmp", "ns">>
SYNC_SUCCESS == "SYNC_SUCCESS"
\* Option<T>: None is << >>, Some(x) is <<x>>
None == << >>
Some(x) == <<x>>
IsSome(o) == o # << >>
Unwrap(o) == o[1]
ParentPid == "ppid"
ChildPid == "cpid"
\* thread ids: the worker thread of setup call i, and the thread of the caller
Tid(i) == i
CallerTid == 0

NamespaceType == {"Ipc", "Uts", "Pid", "User", "Net"}

\* NamespaceType::get with the name of NSTYPENET for the network kind
get_Network(t) ==
    CASE t = "Ipc"  -> "ipc"
      [] t = "Uts"  -> "uts"
      [] t = "Pid"  -> "pid"
      [] t = "User" -> "user"
      [] t = "Net"  -> "network"

\* NamespaceType::get
get(t) ==
    CASE t = "Ipc"  -> "ipc"
      [] t = "Uts"  -> "uts"
      [] t = "Pid"  -> "pid"
      [] t = "User" -> "user"
      [] t = "Net"  -> "net"

\* NamespaceType::get_flags
get_flags(t) ==
    CASE t = "Ipc"  -> "CLONE_NEWIPC"
      [] t = "Uts"  -> "CLONE_NEWUTS"
      [] t = "Pid"  -> "CLONE_NEWPID"
      [] t = "User" -> "CLONE_NEWUSER"
      [] t = "Net"  -> "CLONE_NEWNET"

\* format!("/proc/{}/ns/{}", pid, ns_type)
get_proc_ns_path(pid, ns_type) == <<"proc", pid, "ns", ns_type>>

\* format!("/proc/{}/task/{}/ns/{}", getpid(), gettid(), ns_type)
get_current_thread_ns_path(pid, tid, ns_type) ==
    <<"proc", pid, "task", tid, "ns", ns_type>>

\* get_proc_id_map_path
get_proc_id_map_path(pid, is_uid) ==
    IF is_uid THEN <<"proc", pid, "uid_map">> ELSE <<"proc", pid, "gid_map">>

\* PathBuf::from(dir).join(name)
PathJoin(dir, name) == Append(dir, name)

\* ---------------------------------------------------------- write_mappings
DigitChars == <<"0", "1", "2", "3", "4", "5", "6", "7", "8", "9">>

RECURSIVE ToDec(_)
\* "{}" of an unsigned integer: decimal, no leading zeros
ToDec(n) ==
    IF n < 10 THEN <<DigitChars[n + 1]>>
    ELSE ToDec(n \div 10) \o <<DigitChars[(n % 10) + 1]>>

\* protocols::trans::from_vec: LinuxIDMapping -> oci::LinuxIdMapping
from_vec(v) ==
    [i \in 1..Len(v) |->
        [container_id |-> v[i].ContainerID,
         host_id      |-> v[i].HostID,
         size         |-> v[i].Size]]

\* the line with container_id and host_id the wrong way round
FormatMapping_Swapped(m) ==
    ToDec(m.host_id) \o <<" ">> \o ToDec(m.container_id) \o <<" ">>
        \o ToDec(m.size) \o <<"\n">>

\* format!("{} {} {}\n", m.container_id, m.host_id, m.size)
FormatMapping(m) ==
    ToDec(m.container_id) \o <<" ">> \o ToDec(m.host_id) \o <<" ">>
        \o ToDec(m.size) \o <<"\n">>

\* .filter(|m| m.size != 0)
FilterNonZero(maps) == SelectSeq(maps, LAMBDA m : m.size # 0)

RECURSIVE Join(_)
\* .collect::<Vec<_>>().join("")
Join(lines) == IF lines = << >> THEN << >> ELSE Head(lines) \o Join(Tail(lines))

\* the `data` string of write_mappings
MappingData(maps) ==
    LET kept == FilterNonZero(maps)
    IN  Join([i \in 1..Len(kept) |-> FormatMapping(kept[i])])


\* write_mappings that opens the path whatever the text is
write_mappings_AlwaysOpen(path, maps, outcome) ==
    LET data == MappingData(maps)
    IN  IF outcome = "open_fail"
        THEN [res |-> "err", opens |-> 0, closes |-> 0, written |-> None]
        ELSE IF outcome = "write_fail"
        THEN [res |-> "err", opens |-> 1, closes |-> 1, written |-> None]
        ELSE [res |-> "ok", opens |-> 1, closes |-> 1, written |-> Some(data)]

\* write_mappings that closes the descriptor after the `?` of the write
write_mappings_NoDefer(path, maps, outcome) ==
    LET data == MappingData(maps)
    IN  IF data = << >>
        THEN [res |-> "ok", opens |-> 0, closes |-> 0, written |-> None]
        ELSE IF outcome = "open_fail"
        THEN [res |-> "err", opens |-> 0, closes |-> 0, written |-> None]
        ELSE IF outcome = "write_fail"
        THEN [res |-> "err", opens |-> 1, closes |-> 0, written |-> None]
        ELSE [res |-> "ok", opens |-> 1, closes |-> 1, written |-> Some(data)]

\* outcome of one write_mappings call; `outcome` is what the OS does to the
\* open and the write ("ok", "open_fail", "write_fail")
write_mappings(path, maps, outcome) ==
    LET data == MappingData(maps)
    IN  IF data = << >>
        THEN [res |-> "ok", opens |-> 0, closes |-> 0, written |-> None]
        ELSE IF outcome = "open_fail"
        THEN [res |-> "err", opens |-> 0, closes |-> 0, written |-> None]
        ELSE IF outcome = "write_fail"
        THEN [res |-> "err", opens |-> 1, closes |-> 1, written |-> None]
        ELSE [res |-> "ok", opens |-> 1, closes |-> 1, written |-> Some(data)]

WriteOutcomes == {"ok", "open_fail", "write_fail"}

\* ------------------------------------------------------- Namespace builder
\* Namespace::new
Namespace_new ==
    [path              |-> << >>,
     persistent_ns_dir |-> PERSISTENT_NS_DIR,
     ns_type           |-> "Ipc",
     hostname          |-> None,
     uid_mappings      |-> None,
     gid_mappings      |-> None]

get_ipc(n) == [n EXCEPT !.ns_type = "Ipc"]

get_uts(n, hostname) ==
    [n EXCEPT !.ns_type = "Uts",
              !.hostname = IF hostname # "" THEN Some(hostname) ELSE @]

get_pid(n) == [n EXCEPT !.ns_type = "Pid"]

get_user(n, uid_mappings, gid_mappings) ==
    [n EXCEPT !.ns_type = "User",
              !.uid_mappings = IF uid_mappings # << >> THEN Some(uid_mappings) ELSE @,
              !.gid_mappings = IF gid_mappings # << >> THEN Some(gid_mappings) ELSE @]

get_net(n) == [n EXCEPT !.ns_type = "Net"]

\* set_root_dir that starts again from a new Namespace
set_root_dir_AsNew(n, dir) == [Namespace_new EXCEPT !.persistent_ns_dir = dir]

set_root_dir(n, dir) == [n EXCEPT !.persistent_ns_dir = dir]

\* ------------------------------------------------------------------ inputs
NsIds == 1..(1 + MaxDeps)
Hostnames == {"", "h"}
Dirs == {PERSISTENT_NS_DIR, OtherDir}

RangeMapping == [ContainerID |-> 0, HostID |-> 100000, Size |-> 65536]
ZeroMapping == [ContainerID |-> 7, HostID |-> 7, Size |-> 0]
MappingLists == {<< >>, <<RangeMapping>>, <<ZeroMapping>>}

\* ------------------------------------------------------------------- state
VARIABLES
    ns,        \* the caller's Namespace objects
    own,       \* each object: "caller", "setup" (moved into setup), "dropped", "unbuilt"
    dirs,      \* existing directories
    files,     \* existing regular files
    mnt,       \* bind mounts, as [src, dst] records
    \* setup_in_userns, parent side
    ppc,       \* position of the parent in setup_in_userns
    pidx,      \* index of the parent's current loop
    call,      \* arguments of the call: [userns, nses]
    mounts,    \* the `mounts` vector of (source, destination)
    pfds,      \* pipe descriptors open in the parent
    presult,   \* what setup_in_userns returned in the parent
    \* setup_in_userns, child side
    cpc,       \* position of the child
    cidx,      \* index of the child's loop over nses
    cfds,      \* pipe descriptors open in the child
    cns,       \* clone flags the child has unshared, in order
    cid,       \* identity of the child: "orig" or "root"
    chost,     \* hostname set by the child
    cresult,   \* how the child left the call
    pipeA,     \* tokens child -> parent (cwfd -> prfd)
    pipeB,     \* tokens parent -> child (pwfd -> crfd)
    sent,      \* number of write_sync calls that succeeded on each side
    rcvd,      \* number of read_sync calls that succeeded on each side
    idmap,     \* texts written to /proc/<child>/{uid,gid}_map
    child,     \* the forked process: "none", "alive", "zombie", "reaped"
    others,    \* other children of the caller that are running
    zombies,   \* other children that terminated and are not reaped
    failed,    \* step that failed on each side, "none" if none
    \* Namespace::setup
    spc,       \* position of each setup call
    tns,       \* clone flags unshared by each worker thread
    thost,     \* hostname set by each worker thread
    hist,      \* builder calls made on each object: [fresh, setter, arg]
    sfail,     \* step of each setup call that failed, "none" if none
    seen,      \* what each setup call found at its target when it started
    \* write_mappings on its own
    wm_maps,   \* the mapping list handed to write_mappings
    wm_os,     \* what the OS does to its open and write
    wm_pc, wm_out

nsVars == <<ns, own>>
fsVars == <<dirs, files, mnt>>
parVars == <<ppc, pidx, call, mounts, pfds, presult>>
chVars == <<cpc, cidx, cfds, cns, cid, chost, cresult>>
pipeVars == <<pipeA, pipeB, sent, rcvd>>
procVars == <<child, others, zombies>>
suVars == <<spc, tns, thost, hist, sfail, seen>>
wmVars == <<wm_maps, wm_os, wm_pc, wm_out>>
vars == <<nsVars, fsVars, parVars, chVars, pipeVars, procVars, idmap, failed,
          suVars, wmVars>>

\* ----------------------------------------------------------- initial states
HsIdle ==
    /\ ppc = "idle" /\ pidx = 0 /\ call = [userns |-> 1, nses |-> << >>] /\ mounts = << >>
    /\ pfds = {} /\ presult = "none"
    /\ cpc = "none" /\ cidx = 0 /\ cfds = {} /\ cns = << >> /\ cid = "orig"
    /\ chost = None /\ cresult = "none"
    /\ pipeA = << >> /\ pipeB = << >> /\ idmap = {}
    /\ sent = [parent |-> 0, child |-> 0]
    /\ rcvd = [parent |-> 0, child |-> 0]
    /\ child = "none" /\ zombies = 0
    /\ failed = [parent |-> "none", child |-> "none"]

\* a setup call that has not started has seen nothing
NotSeen == [file |-> FALSE, mounted |-> FALSE, prev |-> {}]

SuIdle ==
    /\ spc = [i \in NsIds |-> "idle"]
    /\ tns = [t \in {CallerTid} \cup NsIds |-> << >>]
    /\ thost = [i \in NsIds |-> None]
    /\ sfail = [i \in NsIds |-> "none"]
    /\ seen = [i \in NsIds |-> NotSeen]

WmIdle == wm_maps = << >> /\ wm_os = "ok" /\ wm_pc = "idle" /\ wm_out = None

\* the builder calls made on an object: whether none was made yet, the last
\* kind-setter called and the hostname argument of the last get_uts
NoCalls == [fresh |-> TRUE, setter |-> "new", arg |-> ""]

SetterOf(ns_type) ==
    CASE ns_type = "Ipc"  -> "get_ipc"
      [] ns_type = "Uts"  -> "get_uts"
      [] ns_type = "Pid"  -> "get_pid"
      [] ns_type = "User" -> "get_user"
      [] ns_type = "Net"  -> "get_net"

\* the calls behind a configuration made by one kind-setter on a new object
BuiltBy(n) ==
    [fresh  |-> FALSE,
     setter |-> SetterOf(n.ns_type),
     arg    |-> IF IsSome(n.hostname) THEN Unwrap(n.hostname) ELSE ""]

\* configurations the builder produces for the user namespace argument
UserNsConfigs ==
    {set_root_dir(get_user(Namespace_new, u, g), d) :
        u \in MappingLists, g \in {<< >>, <<RangeMapping>>}, d \in Dirs}
    \cup {set_root_dir(get_pid(Namespace_new), d) : d \in Dirs}

\* configurations the builder produces for a dependent namespace
DepConfigs ==
    {get_ipc(Namespace_new), get_pid(Namespace_new), get_net(Namespace_new)}
    \cup {get_uts(Namespace_new, h) : h \in Hostnames}

\* the caller has built its Namespace objects and calls setup_in_userns
Init ==
    /\ ns \in {f \in [NsIds -> UserNsConfigs \cup DepConfigs] :
                 /\ f[1] \in UserNsConfigs
                 /\ \A i \in NsIds \ {1} : f[i] \in DepConfigs}
    /\ own = [i \in NsIds |-> "caller"]
    /\ hist = [i \in NsIds |-> BuiltBy(ns[i])]
    /\ dirs = {} /\ files = {} /\ mnt = {}
    /\ others \in 0..MaxOtherChildren
    /\ HsIdle /\ SuIdle /\ WmIdle

\* ------------------------------------------- rustjail::sync (token pipes)
\* read_sync blocks until a token is in the pipe
CanReadSync(pipe) == Len(pipe) > 0

\* the pipe after read_sync consumed one token
AfterReadSync(pipe) == Tail(pipe)

\* the pipe after write_sync(fd, SYNC_SUCCESS, "") sent the k-th token
AfterWriteSync(pipe, k) == Append(pipe, [msg |-> SYNC_SUCCESS, seq |-> k])

\* ------------------------------------------- setup_in_userns, parent side
Nses == call.nses
Userns == call.userns

\* `return Err(..)` / `?` in the parent: the call returns, descriptors stay
ParentErr(step) ==
    /\ ppc' = "returned"
    /\ presult' = "err"
    /\ failed' = [failed EXCEPT !.parent = step]

\* unistd::pipe() for (prfd, cwfd); the call begins with its arguments
ParentPipe1 ==
    /\ ppc = "idle"
    /\ \A i \in NsIds : spc[i] \in {"idle", "ok", "err"}
    /\ \E n \in 0..MaxDeps :
         call' = [userns |-> 1, nses |-> [k \in 1..n |-> k + 1]]
    /\ \/ /\ pfds' = {"prfd", "cwfd"}
          /\ ppc' = "pipe2"
          /\ UNCHANGED <<presult, failed>>
       \/ /\ ParentErr("pipe")
          /\ UNCHANGED pfds
    /\ UNCHANGED <<nsVars, fsVars, pidx, mounts, chVars, pipeVars, procVars,
                   idmap, suVars, wmVars>>

\* unistd::pipe() for (crfd, pwfd)
ParentPipe2 ==
    /\ ppc = "pipe2"
    /\ \/ /\ pfds' = pfds \cup {"crfd", "pwfd"}
          /\ ppc' = "fork"
          /\ UNCHANGED <<presult, failed>>
       \/ /\ ParentErr("pipe")
          /\ UNCHANGED pfds
    /\ UNCHANGED <<nsVars, fsVars, pidx, call, mounts, chVars, pipeVars,
                   procVars, idmap, suVars, wmVars>>

\* fork(): the child starts with a copy of the descriptors; Err(e) returns
Fork ==
    /\ ppc = "fork"
    /\ \/ /\ ppc' = "close_crfd"
          /\ cpc' = "close_prfd"
          /\ cfds' = pfds
          /\ child' = "alive"
          /\ UNCHANGED <<presult, failed>>
       \/ /\ ParentErr("fork")
          /\ UNCHANGED <<cpc, cfds, child>>
    /\ UNCHANGED <<nsVars, fsVars, pidx, call, mounts, pfds, cidx, cns, cid,
                   chost, cresult, pipeVars, others, zombies, idmap, suVars,
                   wmVars>>

\* unistd::close(fd)? in the parent; the descriptor is released either way
ParentClose(at, fd, next) ==
    /\ ppc = at
    /\ pfds' = pfds \ {fd}
    /\ \/ /\ ppc' = next
          /\ UNCHANGED <<presult, failed>>
       \/ ParentErr("close")
    /\ UNCHANGED <<nsVars, fsVars, pidx, call, mounts, chVars, pipeVars,
                   procVars, idmap, suVars, wmVars>>

ParentCloseCrfd == ParentClose("close_crfd", "crfd", "close_cwfd")
ParentCloseCwfd == ParentClose("close_cwfd", "cwfd", "prep_user")

\* create_dir_all + join + File::create + `path = ...` + mounts.push for one
\* Namespace object; `outcome` is what the filesystem does
PrepDirs(i, outcome) ==
    IF outcome = "mkdir_fail" THEN dirs ELSE dirs \cup {ns[i].persistent_ns_dir}

PrepFiles(i, outcome) ==
    IF outcome = "ok"
    THEN files \cup {PathJoin(ns[i].persistent_ns_dir, get(ns[i].ns_type))}
    ELSE files

PrepOutcomes == {"ok", "mkdir_fail", "create_fail"}

\* lines 267-273: mount path of the user namespace
ParentPrepUser ==
    /\ ppc = "prep_user"
    /\ \E outcome \in PrepOutcomes :
         LET new_ns_path == PathJoin(ns[Userns].persistent_ns_dir,
                                     get(ns[Userns].ns_type))
             origin_ns_path == get_proc_ns_path(ChildPid, get(ns[Userns].ns_type))
         IN  /\ dirs' = PrepDirs(Userns, outcome)
             /\ files' = PrepFiles(Userns, outcome)
             /\ IF outcome = "ok"
                THEN /\ ns' = [ns EXCEPT ![Userns].path = new_ns_path]
                     /\ mounts' = Append(mounts, <<origin_ns_path, new_ns_path>>)
                     /\ ppc' = IF Len(Nses) > 0 THEN "prep_dep" ELSE "read1"
                     /\ pidx' = 1
                     /\ UNCHANGED <<presult, failed>>
                ELSE /\ ParentErr(outcome)
                     /\ UNCHANGED <<ns, mounts, pidx>>
    /\ UNCHANGED <<own, mnt, call, pfds, chVars, pipeVars, procVars, idmap,
                   suVars, wmVars>>

\* lines 275-291: one iteration of `for ns in nses`
ParentPrepDep ==
    /\ ppc = "prep_dep"
    /\ LET i == Nses[pidx]
           ns_type == ns[i].ns_type
           new_ns_path == PathJoin(ns[i].persistent_ns_dir, get(ns_type))
           origin_ns_path == get_proc_ns_path(ChildPid, get(ns_type))
       IN  IF ns_type = "Pid"
           THEN /\ ParentErr("pid")
                /\ UNCHANGED <<ns, dirs, files, mounts, pidx>>
           ELSE \E outcome \in PrepOutcomes :
                  /\ dirs' = PrepDirs(i, outcome)
                  /\ files' = PrepFiles(i, outcome)
                  /\ IF outcome = "ok"
                     THEN /\ ns' = [ns EXCEPT ![i].path = new_ns_path]
                          /\ mounts' = Append(mounts, <<origin_ns_path, new_ns_path>>)
                          /\ ppc' = IF pidx < Len(Nses) THEN "prep_dep" ELSE "read1"
                          /\ pidx' = pidx + 1
                          /\ UNCHANGED <<presult, failed>>
                     ELSE /\ ParentErr(outcome)
                          /\ UNCHANGED <<ns, mounts, pidx>>
    /\ UNCHANGED <<own, mnt, call, pfds, chVars, pipeVars, procVars, idmap,
                   suVars, wmVars>>

\* read_sync(prfd)? in the parent
ParentRead(at, next) ==
    /\ ppc = at
    /\ \/ /\ CanReadSync(pipeA)
          /\ pipeA' = AfterReadSync(pipeA)
          /\ rcvd' = [rcvd EXCEPT !.parent = @ + 1]
          /\ ppc' = next
          /\ pidx' = 1
          /\ UNCHANGED <<presult, failed>>
       \/ /\ ParentErr("read_sync")
          /\ UNCHANGED <<pipeA, rcvd, pidx>>
    /\ UNCHANGED <<nsVars, fsVars, call, mounts, pfds, chVars, pipeB, sent,
                   procVars, idmap, suVars, wmVars>>

\* the parent goes on to the mappings without reading the child's first token
ParentReadUserNs_NoRead ==
    /\ ppc = "read1"
    /\ ppc' = "write_uid"
    /\ pidx' = 1
    /\ UNCHANGED <<nsVars, fsVars, call, mounts, pfds, presult, chVars,
                   pipeVars, procVars, idmap, failed, suVars, wmVars>>

\* line 294: wait child to setup user namespace
ParentReadUserNs == ParentRead("read1", "write_uid")

\* the parent starts mounting without waiting for the child's second token
ParentReadDepNs_NoWait ==
    /\ ppc = "read2"
    /\ ppc' = "mount"
    /\ pidx' = 1
    /\ UNCHANGED <<nsVars, fsVars, call, mounts, pfds, presult, chVars,
                   pipeVars, procVars, idmap, failed, suVars, wmVars>>

\* line 308: wait child to setup other namespaces
ParentReadDepNs == ParentRead("read2", "mount")

\* write_mappings for one of the two maps of the user namespace
\* the parent goes on after a failed write_mappings (no `?`)
ParentWriteMap_IgnoreErr(at, next, is_uid, mappings) ==
    /\ ppc = at
    /\ IF ~IsSome(mappings)
       THEN /\ ppc' = next
            /\ UNCHANGED <<idmap, presult, failed>>
       ELSE \E outcome \in WriteOutcomes :
              LET path == get_proc_id_map_path(ChildPid, is_uid)
                  r == write_mappings(path, from_vec(Unwrap(mappings)), outcome)
              IN  /\ idmap' = IF ~IsSome(r.written) THEN idmap
                              ELSE idmap \cup {[path |-> path, data |-> Unwrap(r.written)]}
                  /\ ppc' = next
                  /\ failed' = IF r.res = "ok" THEN failed
                                ELSE [failed EXCEPT !.parent = "write_mappings"]
                  /\ UNCHANGED presult
    /\ UNCHANGED <<nsVars, fsVars, pidx, call, mounts, pfds, chVars, pipeVars,
                   procVars, suVars, wmVars>>

ParentWriteMap(at, next, is_uid, mappings) ==
    /\ ppc = at
    /\ IF ~IsSome(mappings)
       THEN /\ ppc' = next
            /\ UNCHANGED <<idmap, presult, failed>>
       ELSE \E outcome \in WriteOutcomes :
              LET path == get_proc_id_map_path(ChildPid, is_uid)
                  r == write_mappings(path, from_vec(Unwrap(mappings)), outcome)
              IN  /\ idmap' = IF ~IsSome(r.written) THEN idmap
                              ELSE idmap \cup {[path |-> path, data |-> Unwrap(r.written)]}
                  /\ IF r.res = "ok"
                     THEN ppc' = next /\ UNCHANGED <<presult, failed>>
                     ELSE ParentErr("write_mappings")
    /\ UNCHANGED <<nsVars, fsVars, pidx, call, mounts, pfds, chVars, pipeVars,
                   procVars, suVars, wmVars>>

\* lines 297-299
ParentWriteUid ==
    ParentWriteMap("write_uid", "write_gid", TRUE, ns[Userns].uid_mappings)

\* lines 300-302
ParentWriteGid ==
    ParentWriteMap("write_gid", "write1", FALSE, ns[Userns].gid_mappings)

\* write_sync(pwfd, SYNC_SUCCESS, "")? in the parent, its k-th token
ParentWrite(at, next, k) ==
    /\ ppc = at
    /\ \/ /\ pipeB' = AfterWriteSync(pipeB, k)
          /\ sent' = [sent EXCEPT !.parent = @ + 1]
          /\ ppc' = next
          /\ UNCHANGED <<presult, failed>>
       \/ /\ ParentErr("write_sync")
          /\ UNCHANGED <<pipeB, sent>>
    /\ UNCHANGED <<nsVars, fsVars, pidx, call, mounts, pfds, chVars, pipeA, rcvd,
                   procVars, idmap, suVars, wmVars>>

\* line 305: notify child to continue
ParentNotifyMapped == ParentWrite("write1", "read2", 1)

\* line 331: notify child to exit
ParentNotifyPersisted == ParentWrite("write2", "close_prfd", 2)

MountOutcomes == {"ok", "open_fail", "mount_fail"}

\* lines 311-328: one iteration of `for (origin_ns_path, new_ns_path) in mounts`
ParentMount ==
    /\ ppc = "mount"
    /\ \E outcome \in MountOutcomes :
         LET source == mounts[pidx][1]
             destination == mounts[pidx][2]
         IN  IF outcome = "ok"
             THEN /\ mnt' = mnt \cup {[src |-> source, dst |-> destination]}
                  /\ pidx' = pidx + 1
                  /\ ppc' = IF pidx < Len(mounts) THEN "mount" ELSE "write2"
                  /\ UNCHANGED <<presult, failed>>
             ELSE /\ ParentErr(outcome)
                  /\ UNCHANGED <<mnt, pidx>>
    /\ UNCHANGED <<nsVars, dirs, files, call, mounts, pfds, chVars, pipeVars,
                   procVars, idmap, suVars, wmVars>>

\* line 333
ParentClosePrfd == ParentClose("close_prfd", "prfd", "close_pwfd")

\* line 334
ParentClosePwfd == ParentClose("close_pwfd", "pwfd", "wait")

\* lines 335 and 378: nix wait() returns for any terminated child of the
\* caller, then the call returns Ok(())
ParentWait ==
    /\ ppc = "wait"
    /\ \/ /\ child = "zombie"
          /\ child' = "reaped"
          /\ ppc' = "returned" /\ presult' = "ok"
          /\ UNCHANGED <<zombies, failed>>
       \/ /\ zombies > 0
          /\ zombies' = zombies - 1
          /\ ppc' = "returned" /\ presult' = "ok"
          /\ UNCHANGED <<child, failed>>
       \/ /\ ParentErr("wait")
          /\ UNCHANGED <<child, zombies>>
    /\ UNCHANGED <<nsVars, fsVars, pidx, call, mounts, pfds, chVars, pipeVars,
                   others, idmap, suVars, wmVars>>

\* another child of the calling process terminates
OtherChildExits ==
    /\ others > 0
    /\ others' = others - 1
    /\ zombies' = zombies + 1
    /\ UNCHANGED <<nsVars, fsVars, parVars, chVars, pipeVars, child, idmap,
                   failed, suVars, wmVars>>

\* -------------------------------------------- setup_in_userns, child side
\* `?` in the child: setup_in_userns returns Err to its caller in the child
ChildErr(step) ==
    /\ cpc' = "returned"
    /\ cresult' = "err"
    /\ failed' = [failed EXCEPT !.child = step]

\* unistd::close(fd)? in the child
ChildClose(at, fd, next) ==
    /\ cpc = at
    /\ cfds' = cfds \ {fd}
    /\ \/ /\ cpc' = next
          /\ UNCHANGED <<cresult, failed>>
       \/ ChildErr("close")
    /\ UNCHANGED <<nsVars, fsVars, parVars, cidx, cns, cid, chost, pipeVars,
                   procVars, idmap, suVars, wmVars>>

\* line 338
ChildClosePrfd == ChildClose("close_prfd", "prfd", "close_pwfd")

\* line 339
ChildClosePwfd == ChildClose("close_pwfd", "pwfd", "unshare_user")

\* lines 341-342: unshare(userns.ns_type.get_flags())
ChildUnshareUser ==
    /\ cpc = "unshare_user"
    /\ \/ /\ cns' = Append(cns, get_flags(ns[Userns].ns_type))
          /\ cpc' = "write1"
          /\ UNCHANGED <<cresult, failed>>
       \/ /\ ChildErr("unshare")
          /\ UNCHANGED cns
    /\ UNCHANGED <<nsVars, fsVars, parVars, cidx, cfds, cid, chost, pipeVars,
                   procVars, idmap, suVars, wmVars>>

\* write_sync(cwfd, SYNC_SUCCESS, "")? in the child, its k-th token
ChildWrite(at, next, k) ==
    /\ cpc = at
    /\ \/ /\ pipeA' = AfterWriteSync(pipeA, k)
          /\ sent' = [sent EXCEPT !.child = @ + 1]
          /\ cpc' = next
          /\ UNCHANGED <<cresult, failed>>
       \/ /\ ChildErr("write_sync")
          /\ UNCHANGED <<pipeA, sent>>
    /\ UNCHANGED <<nsVars, fsVars, parVars, cidx, cfds, cns, cid, chost, pipeB, rcvd,
                   procVars, idmap, suVars, wmVars>>

\* line 345: notify parent user namespace creation is complete
ChildNotifyUserNs == ChildWrite("write1", "read1", 1)

\* the child waits for the parent without having sent its second token
ChildNotifyDepNs_NoToken ==
    /\ cpc = "write2"
    /\ cpc' = "read2"
    /\ UNCHANGED <<nsVars, fsVars, parVars, cidx, cfds, cns, cid, chost,
                   cresult, pipeVars, procVars, idmap, failed, suVars, wmVars>>

\* line 363: notify parent to persist namespace
ChildNotifyDepNs == ChildWrite("write2", "read2", 2)

\* read_sync(crfd)? in the child
ChildRead(at, next) ==
    /\ cpc = at
    /\ \/ /\ CanReadSync(pipeB)
          /\ pipeB' = AfterReadSync(pipeB)
          /\ rcvd' = [rcvd EXCEPT !.child = @ + 1]
          /\ cpc' = next
          /\ UNCHANGED <<cresult, failed>>
       \/ /\ ChildErr("read_sync")
          /\ UNCHANGED <<pipeB, rcvd>>
    /\ UNCHANGED <<nsVars, fsVars, parVars, cidx, cfds, cns, cid, chost, pipeA, sent,
                   procVars, idmap, suVars, wmVars>>

\* the child goes on to setid without waiting for the parent's token
ChildReadMapped_NoWait ==
    /\ cpc = "read1"
    /\ cpc' = "setid"
    /\ UNCHANGED <<nsVars, fsVars, parVars, cidx, cfds, cns, cid, chost,
                   cresult, pipeVars, procVars, idmap, failed, suVars, wmVars>>

\* line 348: wait parent to remap ids
ChildReadMapped == ChildRead("read1", "setid")

\* line 366: wait parent to persist namespace
ChildReadPersisted == ChildRead("read2", "exit")

\* line 350: setid(Uid::from_raw(0), Gid::from_raw(0))?
ChildSetid ==
    /\ cpc = "setid"
    /\ \/ /\ cid' = "root"
          /\ cpc' = IF Len(Nses) > 0 THEN "unshare_dep" ELSE "write2"
          /\ cidx' = 1
          /\ UNCHANGED <<cresult, failed>>
       \/ /\ ChildErr("setid")
          /\ UNCHANGED <<cid, cidx>>
    /\ UNCHANGED <<nsVars, fsVars, parVars, cfds, cns, chost, pipeVars,
                   procVars, idmap, suVars, wmVars>>

UnshareOutcomes == {"ok", "unshare_fail", "sethostname_fail"}

\* lines 352-360: one iteration of `for ns in nses` in the child
ChildUnshareDep ==
    /\ cpc = "unshare_dep"
    /\ \E outcome \in UnshareOutcomes :
         LET n == ns[Nses[cidx]]
             sets_host == n.ns_type = "Uts" /\ IsSome(n.hostname)
         IN  /\ outcome = "sethostname_fail" => sets_host
             /\ cns' = IF outcome = "unshare_fail" THEN cns
                       ELSE Append(cns, get_flags(n.ns_type))
             /\ chost' = IF outcome = "ok" /\ sets_host THEN Some(Unwrap(n.hostname)) ELSE chost
             /\ IF outcome = "ok"
                THEN /\ cidx' = cidx + 1
                     /\ cpc' = IF cidx < Len(Nses) THEN "unshare_dep" ELSE "write2"
                     /\ UNCHANGED <<cresult, failed>>
                ELSE /\ ChildErr(outcome)
                     /\ UNCHANGED cidx
    /\ UNCHANGED <<nsVars, fsVars, parVars, cfds, cid, pipeVars, procVars,
                   idmap, suVars, wmVars>>

\* line 368: std::process::exit(0) ends the process and closes its descriptors
ChildExit ==
    /\ cpc = "exit"
    /\ cpc' = "exited"
    /\ cresult' = "exit0"
    /\ child' = "zombie"
    /\ cfds' = {}
    /\ UNCHANGED <<nsVars, fsVars, parVars, cidx, cns, cid, chost, pipeVars,
                   others, zombies, idmap, failed, suVars, wmVars>>

\* ------------------------------------------------ setup_in_userns as a whole
ParentNext ==
    \/ ParentPipe1 \/ ParentPipe2 \/ Fork
    \/ ParentCloseCrfd \/ ParentCloseCwfd
    \/ ParentPrepUser \/ ParentPrepDep
    \/ ParentReadUserNs \/ ParentWriteUid \/ ParentWriteGid
    \/ ParentNotifyMapped \/ ParentReadDepNs
    \/ ParentMount \/ ParentNotifyPersisted
    \/ ParentClosePrfd \/ ParentClosePwfd \/ ParentWait

ChildNext ==
    \/ ChildClosePrfd \/ ChildClosePwfd \/ ChildUnshareUser
    \/ ChildNotifyUserNs \/ ChildReadMapped \/ ChildSetid
    \/ ChildUnshareDep \/ ChildNotifyDepNs \/ ChildReadPersisted
    \/ ChildExit

Next == ParentNext \/ ChildNext \/ OtherChildExits

Spec == Init /\ [][Next]_vars

\* the scheduler runs both processes, so a step that can be taken without
\* an OS failure is eventually taken (the PID rejection is such a step); OS
\* failures and the termination of other children are not forced
FairSpec ==
    /\ Spec
    /\ WF_vars(ParentNext /\ failed'.parent \in {failed.parent, "pid"})
    /\ WF_vars(ChildNext /\ failed' = failed)

\* ---------------------------------------------------------- builder calls
CallerHolds(i) == own[i] = "caller" /\ spc[i] \in {"idle", "ok"}

Configure(i, n, setter, arg) ==
    /\ CallerHolds(i)
    /\ ns' = [ns EXCEPT ![i] = n]
    /\ hist' = [hist EXCEPT ![i] = [fresh |-> FALSE, setter |-> setter, arg |-> arg]]
    /\ UNCHANGED <<own, fsVars, parVars, chVars, pipeVars, procVars, idmap,
                   failed, spc, tns, thost, sfail, seen, wmVars>>

GetIpc(i) == Configure(i, get_ipc(ns[i]), "get_ipc", "")
GetUts(i) == \E h \in Hostnames : Configure(i, get_uts(ns[i], h), "get_uts", h)
GetPid(i) == Configure(i, get_pid(ns[i]), "get_pid", "")
GetUser(i) ==
    \E u \in {<< >>, <<RangeMapping>>}, g \in {<< >>, <<RangeMapping>>} :
        Configure(i, get_user(ns[i], u, g), "get_user", "")
GetNet(i) == Configure(i, get_net(ns[i]), "get_net", "")
SetRootDir(i) ==
    \E d \in Dirs :
        Configure(i, set_root_dir(ns[i], d), hist[i].setter, hist[i].arg)

\* -------------------------------------------------------- Namespace::setup
\* the state of the target <persistent_ns_dir>/<kind> when call i starts:
\* whether the file exists, whether something is mounted on it, and where
\* the other setup calls for the same target stand
Found(i) ==
    LET target == PathJoin(ns[i].persistent_ns_dir, get(ns[i].ns_type))
    IN  [file    |-> target \in files,
         mounted |-> \E m \in mnt : m.dst = target,
         prev    |-> {spc[j] : j \in {k \in NsIds \ {i} :
                        /\ own[k] # "unbuilt"
                        /\ PathJoin(ns[k].persistent_ns_dir, get(ns[k].ns_type)) = target}}]

\* `?` / `return Err` in setup or a failed join: self is dropped
SetupErr(i, step) ==
    /\ spc' = [spc EXCEPT ![i] = "err"]
    /\ sfail' = [sfail EXCEPT ![i] = step]
    /\ own' = [own EXCEPT ![i] = "dropped"]

\* setup that creates the target with create_new: an existing file is an error
SetupStart_CreateNew(i) ==
    /\ CallerHolds(i) /\ spc[i] = "idle"
    /\ ppc \in {"idle", "returned"}
    /\ \E outcome \in PrepOutcomes :
         LET ns_type == ns[i].ns_type
             new_ns_path == PathJoin(ns[i].persistent_ns_dir, get(ns_type))
         IN  /\ dirs' = PrepDirs(i, outcome)
             /\ IF outcome = "mkdir_fail" \/ ns_type = "Pid" \/ outcome = "create_fail"
                THEN /\ SetupErr(i, IF outcome = "mkdir_fail" THEN outcome
                                     ELSE IF ns_type = "Pid" THEN "pid"
                                     ELSE outcome)
                     /\ UNCHANGED <<ns, files>>
                ELSE IF new_ns_path \in files
                THEN /\ SetupErr(i, "exists")
                     /\ UNCHANGED <<ns, files>>
                ELSE /\ files' = PrepFiles(i, outcome)
                     /\ ns' = [ns EXCEPT ![i].path = new_ns_path]
                     /\ own' = [own EXCEPT ![i] = "setup"]
                     /\ spc' = [spc EXCEPT ![i] = "open"]
                     /\ UNCHANGED sfail
    /\ seen' = [seen EXCEPT ![i] = Found(i)]
    /\ UNCHANGED <<mnt, parVars, chVars, pipeVars, procVars, idmap, failed,
                   tns, thost, hist, wmVars>>

\* lines 179-195: create_dir_all, the PID check, File::create, `self.path = ..`
\* and thread::spawn
SetupStart(i) ==
    /\ CallerHolds(i) /\ spc[i] = "idle"
    /\ ppc \in {"idle", "returned"}
    /\ \E outcome \in PrepOutcomes :
         LET ns_type == ns[i].ns_type
             new_ns_path == PathJoin(ns[i].persistent_ns_dir, get(ns_type))
         IN  /\ dirs' = PrepDirs(i, outcome)
             /\ IF outcome = "mkdir_fail" \/ ns_type = "Pid" \/ outcome = "create_fail"
                THEN /\ SetupErr(i, IF outcome = "mkdir_fail" THEN outcome
                                     ELSE IF ns_type = "Pid" THEN "pid"
                                     ELSE outcome)
                     /\ UNCHANGED <<ns, files>>
                ELSE /\ files' = PrepFiles(i, outcome)
                     /\ ns' = [ns EXCEPT ![i].path = new_ns_path]
                     /\ own' = [own EXCEPT ![i] = "setup"]
                     /\ spc' = [spc EXCEPT ![i] = "open"]
                     /\ UNCHANGED sfail
    /\ seen' = [seen EXCEPT ![i] = Found(i)]
    /\ UNCHANGED <<mnt, parVars, chVars, pipeVars, procVars, idmap, failed,
                   tns, thost, hist, wmVars>>

\* the closure returns Err: the thread ends with that result
WorkerErr(i, step) ==
    /\ spc' = [spc EXCEPT ![i] = "join_err"]
    /\ sfail' = [sfail EXCEPT ![i] = step]

\* the worker goes on after a failed open of its namespace link (no `?`)
WorkerOpen_IgnoreErr(i) ==
    /\ spc[i] = "open"
    /\ spc' = [spc EXCEPT ![i] = "unshare"]
    /\ \/ UNCHANGED sfail
       \/ sfail' = [sfail EXCEPT ![i] = "open_fail"]
    /\ UNCHANGED <<nsVars, fsVars, parVars, chVars, pipeVars, procVars, idmap,
                   failed, tns, thost, hist, seen,
                   wmVars>>

\* lines 197-202: File::open(source)?
WorkerOpen(i) ==
    /\ spc[i] = "open"
    /\ \/ spc' = [spc EXCEPT ![i] = "unshare"] /\ UNCHANGED sfail
       \/ WorkerErr(i, "open_fail")
    /\ UNCHANGED <<nsVars, fsVars, parVars, chVars, pipeVars, procVars, idmap,
                   failed, tns, thost, hist, seen,
                   wmVars>>

\* unshare that moves every thread of the process into the new namespace
WorkerUnshare_ProcessWide(i) ==
    /\ spc[i] = "unshare"
    /\ \/ /\ tns' = [t \in DOMAIN tns |-> Append(tns[t], get_flags(ns[i].ns_type))]
          /\ spc' = [spc EXCEPT ![i] =
                        IF ns[i].ns_type = "Uts" /\ IsSome(ns[i].hostname)
                        THEN "sethostname" ELSE "mount"]
          /\ UNCHANGED sfail
       \/ /\ WorkerErr(i, "unshare_fail")
          /\ UNCHANGED tns
    /\ UNCHANGED <<nsVars, fsVars, parVars, chVars, pipeVars, procVars, idmap,
                   failed, thost, hist, seen,
                   wmVars>>

\* lines 205-207: unshare(cf)?
WorkerUnshare(i) ==
    /\ spc[i] = "unshare"
    /\ \/ /\ tns' = [tns EXCEPT ![i] = Append(@, get_flags(ns[i].ns_type))]
          /\ spc' = [spc EXCEPT ![i] =
                        IF ns[i].ns_type = "Uts" /\ IsSome(ns[i].hostname)
                        THEN "sethostname" ELSE "mount"]
          /\ UNCHANGED sfail
       \/ /\ WorkerErr(i, "unshare_fail")
          /\ UNCHANGED tns
    /\ UNCHANGED <<nsVars, fsVars, parVars, chVars, pipeVars, procVars, idmap,
                   failed, thost, hist, seen,
                   wmVars>>

\* lines 209-211: sethostname(hostname.unwrap())?
WorkerSethostname(i) ==
    /\ spc[i] = "sethostname"
    /\ \/ /\ thost' = [thost EXCEPT ![i] = Some(Unwrap(ns[i].hostname))]
          /\ spc' = [spc EXCEPT ![i] = "mount"]
          /\ UNCHANGED sfail
       \/ /\ WorkerErr(i, "sethostname_fail")
          /\ UNCHANGED thost
    /\ UNCHANGED <<nsVars, fsVars, parVars, chVars, pipeVars, procVars, idmap,
                   failed, tns, hist, seen,
                   wmVars>>

\* lines 214-226: baremount(source, destination, "none", MS_BIND | MS_REC, "")
WorkerMount(i) ==
    /\ spc[i] = "mount"
    /\ LET source == get_current_thread_ns_path(ParentPid, Tid(i),
                                                get(ns[i].ns_type))
           destination == PathJoin(ns[i].persistent_ns_dir, get(ns[i].ns_type))
       IN  \/ /\ mnt' = mnt \cup {[src |-> source, dst |-> destination]}
              /\ spc' = [spc EXCEPT ![i] = "join_ok"]
              /\ UNCHANGED sfail
           \/ /\ WorkerErr(i, "mount_fail")
              /\ UNCHANGED mnt
    /\ UNCHANGED <<nsVars, dirs, files, parVars, chVars, pipeVars, procVars,
                   idmap, failed, tns, thost, hist, seen,
                   wmVars>>

\* lines 234-238: join the worker and return Ok(self) or its error
SetupJoin(i) ==
    /\ spc[i] \in {"join_ok", "join_err"}
    /\ IF spc[i] = "join_ok"
       THEN /\ spc' = [spc EXCEPT ![i] = "ok"]
            /\ own' = [own EXCEPT ![i] = "caller"]
            /\ UNCHANGED sfail
       ELSE SetupErr(i, sfail[i])
    /\ UNCHANGED <<ns, fsVars, parVars, chVars, pipeVars, procVars, idmap,
                   failed, tns, thost, hist, seen,
                   wmVars>>

\* one Namespace is built and set up, as in
\* Namespace::new(&logger).get_x().set_root_dir(dir).setup().await
InitSetup ==
    /\ ns = [i \in NsIds |-> Namespace_new]
    /\ own = [i \in NsIds |-> IF i = 1 THEN "caller" ELSE "unbuilt"]
    /\ hist = [i \in NsIds |-> NoCalls]
    /\ dirs \in SUBSET Dirs /\ files = {} /\ mnt = {}
    /\ others = 0
    /\ HsIdle /\ SuIdle /\ WmIdle

NextSetup ==
    \E i \in NsIds :
        \/ GetIpc(i) \/ GetUts(i) \/ GetPid(i) \/ GetUser(i) \/ GetNet(i)
        \/ SetRootDir(i)
        \/ SetupStart(i) \/ WorkerOpen(i) \/ WorkerUnshare(i)
        \/ WorkerSethostname(i) \/ WorkerMount(i) \/ SetupJoin(i)

SpecSetup == InitSetup /\ [][NextSetup]_vars

\* ------------------------------------------------ two setup calls
\* crate::mount::remove_mounts(&[ns.path]) by the caller, after a setup that
\* returned Ok: one mount on the persisted path is removed, the file stays
RemoveMounts(i) ==
    /\ own[i] = "caller" /\ spc[i] = "ok"
    /\ \E m \in mnt :
         /\ m.dst = ns[i].path
         /\ mnt' = mnt \ {m}
    /\ UNCHANGED <<nsVars, dirs, files, parVars, chVars, pipeVars, procVars,
                   idmap, failed, suVars, wmVars>>

\* configurations the builder produces for setup
SetupConfigs ==
    {set_root_dir(c, d) :
        c \in DepConfigs \cup {get_user(Namespace_new, << >>, << >>)},
        d \in Dirs}

\* the objects of the two calls
TwoCalls == {1, 2}

\* the caller has built two objects; it calls setup on each, one after the
\* other or from two tasks at once, and may unmount what was persisted
InitTwo ==
    /\ ns \in {f \in [NsIds -> SetupConfigs \cup {Namespace_new}] :
                 \A i \in NsIds : IF i \in TwoCalls THEN f[i] \in SetupConfigs
                                   ELSE f[i] = Namespace_new}
    /\ own = [i \in NsIds |-> IF i \in TwoCalls THEN "caller" ELSE "unbuilt"]
    /\ hist = [i \in NsIds |-> IF i \in TwoCalls THEN BuiltBy(ns[i]) ELSE NoCalls]
    /\ dirs = {} /\ files = {} /\ mnt = {}
    /\ others = 0
    /\ HsIdle /\ SuIdle /\ WmIdle

NextTwo ==
    \E i \in NsIds :
        \/ SetupStart(i) \/ WorkerOpen(i) \/ WorkerUnshare(i)
        \/ WorkerSethostname(i) \/ WorkerMount(i) \/ SetupJoin(i)
        \/ RemoveMounts(i)

SpecTwo == InitTwo /\ [][NextTwo]_vars

\* ------------------------------------------ either way of persisting
\* the caller either hands built objects to setup_in_userns (all are built)
\* or builds one object and calls setup on it
AllBuilt == \A i \in NsIds : own[i] # "unbuilt"

NextBoth ==
    \/ AllBuilt /\ Next
    \/ ~AllBuilt /\ NextSetup

SpecBoth == (Init \/ InitSetup) /\ [][NextBoth]_vars

\* ------------------------------------------------- write_mappings on its own
IdValues == {0, 12}
HostValues == {0, 100000}
SizeValues == {0, 1, 65536}
LinuxIdMappings ==
    [container_id : IdValues, host_id : HostValues, size : SizeValues]

SeqsUpTo(S, n) == UNION {[1..k -> S] : k \in 0..n}

InitWM ==
    /\ wm_maps \in SeqsUpTo(LinuxIdMappings, MaxMapLen)
    /\ wm_os \in WriteOutcomes
    /\ wm_pc = "call" /\ wm_out = None
    /\ ns = [i \in NsIds |-> Namespace_new]
    /\ own = [i \in NsIds |-> "unbuilt"]
    /\ hist = [i \in NsIds |-> NoCalls]
    /\ dirs = {} /\ files = {} /\ mnt = {}
    /\ others = 0
    /\ HsIdle /\ SuIdle

\* lines 82-100: one call of write_mappings(logger, path, maps)
WriteMappings ==
    /\ wm_pc = "call"
    /\ \E is_uid \in BOOLEAN :
         wm_out' = Some(write_mappings(get_proc_id_map_path(ChildPid, is_uid),
                                       wm_maps, wm_os))
    /\ wm_pc' = "done"
    /\ UNCHANGED <<wm_maps, wm_os, nsVars, fsVars, parVars, chVars, pipeVars,
                   procVars, idmap, failed, suVars>>

NextWM == WriteMappings

SpecWM == InitWM /\ [][NextWM]_vars

\* ================================================================== claims
\* clone flags of the user namespace and of every dependent namespace
ExpectedFlags ==
    <<get_flags(ns[Userns].ns_type)>>
        \o [k \in 1..Len(Nses) |-> get_flags(ns[Nses[k]].ns_type)]

ChildSetidCalled == cid = "root" \/ failed.child = "setid"

NoStepFailed == failed.parent = "none" /\ failed.child = "none"

AllMounted ==
    /\ Len(mounts) = 1 + Len(Nses)
    /\ \A k \in 1..Len(mounts) :
         [src |-> mounts[k][1], dst |-> mounts[k][2]] \in mnt

\* C1: every write to /proc/<child>/uid_map or gid_map is made when the child
\* has unshared the user namespace and has neither called setid nor unshared a
\* dependent namespace; and the child calls setid only when the parent is past
\* both mapping writes.
C1_MappingWriteOrdered ==
    [][ /\ (idmap' # idmap) =>
             (cns = <<get_flags(ns[Userns].ns_type)>> /\ ~ChildSetidCalled)
        /\ (~ChildSetidCalled /\ ChildSetidCalled') =>
             (ppc \in {"read2", "mount", "write2", "close_prfd", "close_pwfd",
                       "wait", "returned"} /\ idmap' = idmap)
      ]_vars

\* both maps were written and the child then became root and unshared a
\* dependent namespace
C1_Witness == Cardinality(idmap) = 2 /\ cid = "root" /\ Len(cns) = 2

\* C2: every bind mount of the parent is made when the child has unshared the
\* user namespace and every dependent namespace and is still running; the
\* child terminates only when every collected pair is mounted.
C2_MountOrdered ==
    [][ /\ (mnt' # mnt) => (cns = ExpectedFlags /\ child = "alive")
        /\ (child = "alive" /\ child' # "alive") => AllMounted
      ]_vars

\* the child has exited after the user namespace and a dependent were mounted
C2_Witness == child = "zombie" /\ Cardinality(mnt) = 2 /\ Len(Nses) = 1

\* C3: setup on a PID Namespace fails and changes neither the set of
\* directories nor the set of files.
C3_PidSetupNoMutation ==
    [][ \A i \in NsIds :
          (spc[i] = "idle" /\ spc'[i] # "idle" /\ ns[i].ns_type = "Pid") =>
             (spc'[i] = "err" /\ dirs' = dirs /\ files' = files)
      ]_vars

\* C4: when setup_in_userns rejects a PID dependent, no child process exists.
C4_PidRejectedBeforeFork == failed.parent = "pid" => child = "none"

\* C5: a Namespace of kind PID has an empty path, and no call it takes part in
\* returns Ok.
InCall(i) == ppc # "idle" /\ (i = Userns \/ \E k \in 1..Len(Nses) : Nses[k] = i)

C5_PidNeverPersisted ==
    \A i \in NsIds :
        ns[i].ns_type = "Pid" =>
            (ns[i].path = << >> /\ (InCall(i) => presult # "ok"))

\* C6: after a failed setup_in_userns the path of the user namespace and of
\* every dependent namespace is empty.
C6_PathOnlyOnSuccess ==
    presult = "err" => \A i \in NsIds : ns[i].path = << >>

\* the mapping writes the configuration asks for
ConfiguredWrite(is_uid, mappings) ==
    IF IsSome(mappings)
    THEN {[path |-> get_proc_id_map_path(ChildPid, is_uid),
           data |-> MappingData(from_vec(Unwrap(mappings)))]}
    ELSE {}

ConfiguredWrites ==
    ConfiguredWrite(TRUE, ns[Userns].uid_mappings)
        \cup ConfiguredWrite(FALSE, ns[Userns].gid_mappings)

AllMapped == \A w \in ConfiguredWrites : w.data # << >> => w \in idmap

\* what the parent can observe before it returns Ok
C7_OkImpliesParentSteps ==
    presult = "ok" =>
        /\ cns = ExpectedFlags /\ AllMapped /\ AllMounted
        /\ failed.parent = "none"
        /\ failed.child \in {"none", "read_sync"}

\* C7: setup_in_userns returns Ok only if every namespace was created, every
\* configured mapping was written, every pair was mounted and no step failed
\* on either side.
C7_NoPartialSuccess ==
    presult = "ok" =>
        (cns = ExpectedFlags /\ AllMapped /\ AllMounted /\ NoStepFailed)

\* C8: without a failed step the handshake completes: the child exits with
\* success and the parent returns Ok.
C8_HandshakeCompletes ==
    ([]NoStepFailed) =>
        <>(presult = "ok" /\ cresult = "exit0" /\ child \in {"zombie", "reaped"})

C8_Witness ==
    presult = "ok" /\ cresult = "exit0" /\ NoStepFailed /\ Len(Nses) = 1

\* C9: when setup_in_userns returns Ok the forked child has been reaped.
C9_ChildReaped == presult = "ok" => child = "reaped"

\* ------------------------------------------------ reading a map text back
RECURSIVE Split(_, _)
\* the fields of text t between separators sep (a text of n separators has
\* n + 1 fields)
Split(t, sep) ==
    IF t = << >> THEN << << >> >>
    ELSE LET rest == Split(Tail(t), sep)
         IN  IF Head(t) = sep THEN << << >> >> \o rest
             ELSE << <<Head(t)>> \o Head(rest) >> \o Tail(rest)

IsDigit(c) == \E d \in 1..10 : DigitChars[d] = c

DigitValue(c) == (CHOOSE d \in 1..10 : DigitChars[d] = c) - 1

\* a decimal number as the kernel reads it back: digits, no leading zero
IsNumber(f) ==
    /\ f # << >>
    /\ \A k \in 1..Len(f) : IsDigit(f[k])
    /\ Len(f) > 1 => f[1] # "0"

RECURSIVE NumberValue(_)
NumberValue(f) ==
    IF f = << >> THEN 0
    ELSE NumberValue(SubSeq(f, 1, Len(f) - 1)) * 10 + DigitValue(f[Len(f)])

\* the lines of a text in which every line ends with "\n"
LinesOf(t) == LET fs == Split(t, "\n") IN SubSeq(fs, 1, Len(fs) - 1)

IsMapLine(l) ==
    LET fs == Split(l, " ")
    IN  Len(fs) = 3 /\ \A k \in 1..3 : IsNumber(fs[k])

IsMapText(t) ==
    /\ Split(t, "\n")[Len(Split(t, "\n"))] = << >>
    /\ \A k \in 1..Len(LinesOf(t)) : IsMapLine(LinesOf(t)[k])

\* the (container_id, host_id, size) triples of a well-formed map text
TriplesOf(t) ==
    [k \in 1..Len(LinesOf(t)) |->
        LET fs == Split(LinesOf(t)[k], " ")
        IN  <<NumberValue(fs[1]), NumberValue(fs[2]), NumberValue(fs[3])>>]

RECURSIVE NonZeroTriples(_)
\* the entries of a mapping list whose size is not 0, in order
NonZeroTriples(maps) ==
    IF maps = << >> THEN << >>
    ELSE (IF Head(maps).size = 0 THEN << >>
          ELSE << <<Head(maps).container_id, Head(maps).host_id,
                    Head(maps).size>> >>)
         \o NonZeroTriples(Tail(maps))

\* C10: the text write_mappings writes consists of one line
\* "<container_id> <host_id> <size>\n" per entry of non-zero size, in input
\* order, and of nothing else; nothing is written only when there is no such
\* entry or the open or the write failed.
C10_MappingText ==
    wm_pc = "done" =>
        LET out == Unwrap(wm_out)
        IN  /\ IsSome(out.written) =>
                 /\ IsMapText(Unwrap(out.written))
                 /\ TriplesOf(Unwrap(out.written)) = NonZeroTriples(wm_maps)
            /\ (out.res = "ok" /\ ~IsSome(out.written)) =>
                 NonZeroTriples(wm_maps) = << >>

\* a text was written for a list that mixes a zero-size entry with a non-zero
\* entry whose container_id and host_id differ
C10_Witness ==
    /\ wm_pc = "done"
    /\ IsSome(Unwrap(wm_out).written)
    /\ \E j, k \in 1..Len(wm_maps) :
         /\ wm_maps[j].size = 0
         /\ wm_maps[k].size # 0
         /\ wm_maps[k].container_id # wm_maps[k].host_id

\* C11: for an empty list or a list whose entries all have size 0,
\* write_mappings opens nothing, writes nothing and returns Ok, whatever the OS
\* would do to an open of the path.
C11_EmptyTextNoOpen ==
    (wm_pc = "done" /\ \A k \in 1..Len(wm_maps) : wm_maps[k].size = 0) =>
        LET out == Unwrap(wm_out)
        IN  out.res = "ok" /\ out.opens = 0 /\ ~IsSome(out.written)

\* a non-empty all-zero list returned Ok for a path whose open would fail
C11_Witness ==
    /\ wm_pc = "done" /\ wm_os = "open_fail"
    /\ Len(wm_maps) > 0 /\ \A k \in 1..Len(wm_maps) : wm_maps[k].size = 0
    /\ Unwrap(wm_out).res = "ok"

\* C19: every descriptor write_mappings opens is closed by the time it
\* returns, whether the write succeeded or failed: the count of opens equals
\* the count of closes in every returned outcome.
C19_OpenedIsClosed ==
    wm_pc = "done" =>
        LET out == Unwrap(wm_out)
        IN  out.closes = out.opens

\* a call that opened the path and whose write failed
C19_Witness ==
    /\ wm_pc = "done" /\ wm_os = "write_fail"
    /\ Unwrap(wm_out).opens = 1 /\ Unwrap(wm_out).res = "err"

\* kind selected by each kind-setter; Namespace::new selects IPC
KindOfSetter(setter) ==
    CASE setter = "new"      -> "Ipc"
      [] setter = "get_ipc"  -> "Ipc"
      [] setter = "get_uts"  -> "Uts"
      [] setter = "get_pid"  -> "Pid"
      [] setter = "get_user" -> "User"
      [] setter = "get_net"  -> "Net"

FreshNamespace ==
    [path |-> << >>, persistent_ns_dir |-> <<"var", "run", "sandbox-ns">>,
     ns_type |-> "Ipc", hostname |-> << >>, uid_mappings |-> << >>,
     gid_mappings |-> << >>]

KindIsLastSetter ==
    \A i \in NsIds :
        /\ ns[i].ns_type = KindOfSetter(hist[i].setter)
        /\ (hist[i].fresh /\ spc[i] = "idle") => ns[i] = FreshNamespace

SetRootDirFrame ==
    \A i \in NsIds :
        SetRootDir(i) =>
            /\ ns'[i].ns_type = ns[i].ns_type
            /\ ns'[i].path = ns[i].path
            /\ ns'[i].hostname = ns[i].hostname
            /\ ns'[i].uid_mappings = ns[i].uid_mappings
            /\ ns'[i].gid_mappings = ns[i].gid_mappings

\* C12: a Namespace on which no builder was called has kind IPC, an empty
\* path, the default persistence directory, no hostname and no mappings; after
\* any builder calls its kind is that of the last kind-setter called (IPC if
\* none); a set_root_dir step leaves kind, path, hostname and mappings as
\* they were.
C12_BuilderKind == [][KindIsLastSetter /\ KindIsLastSetter' /\ SetRootDirFrame]_vars

\* get_uts("h"), get_user with both mappings, get_net and set_root_dir were
\* called on one object, get_net being the last kind-setter
C12_Witness ==
    /\ hist[1].setter = "get_net" /\ ns[1].ns_type = "Net"
    /\ ns[1].hostname = Some("h")
    /\ IsSome(ns[1].uid_mappings) /\ IsSome(ns[1].gid_mappings)
    /\ ns[1].persistent_ns_dir = OtherDir

\* C13: whenever the last kind-setter called on a Namespace is get_uts, then
\* if its argument was the empty string the hostname is None and the worker
\* of its setup sets no hostname, and if its argument was a non-empty h the
\* hostname is Some(h).
C13_EmptyHostnameUnset ==
    \A i \in NsIds :
        hist[i].setter = "get_uts" =>
            IF hist[i].arg = ""
            THEN ~IsSome(ns[i].hostname) /\ ~IsSome(thost[i])
            ELSE ns[i].hostname = Some(hist[i].arg)

\* name of the namespace link of each kind under /proc/<pid>/ns
KindName(ns_type) ==
    CASE ns_type = "Ipc"  -> "ipc"
      [] ns_type = "Uts"  -> "uts"
      [] ns_type = "User" -> "user"
      [] ns_type = "Net"  -> "net"

\* object i has the path <persistence_dir>/<kind_name> and that path is a bind
\* mount of the link `link` extended with the kind name
PersistedFrom(i, link) ==
    /\ ns[i].path = ns[i].persistent_ns_dir \o <<KindName(ns[i].ns_type)>>
    /\ [src |-> link \o <<KindName(ns[i].ns_type)>>, dst |-> ns[i].path] \in mnt

SetupReturnsOk(i) == spc[i] # "ok" /\ spc'[i] = "ok"

UsernsReturnsOk == presult # "ok" /\ presult' = "ok"

CallArgs == {Userns} \cup {Nses[k] : k \in 1..Len(Nses)}

\* C14: when setup returns Ok for an object, the object is not of kind PID,
\* its path is <persistence_dir>/<kind_name> (ipc, uts, user, net) and that
\* path is bind-mounted from the worker thread's link of that kind; when
\* setup_in_userns returns Ok, the same holds for the user namespace argument
\* and every dependent that is not of kind PID, the mount source being the
\* child's link of that kind.
C14_PathOfKind ==
    [][/\ \A i \in NsIds :
            SetupReturnsOk(i) =>
                /\ ns'[i].ns_type # "Pid"
                /\ PersistedFrom(i, <<"proc", ParentPid, "task", Tid(i), "ns">>)'
       /\ UsernsReturnsOk =>
            \A i \in CallArgs :
                ns'[i].ns_type # "Pid" =>
                    PersistedFrom(i, <<"proc", ChildPid, "ns">>)'
      ]_vars

\* setup returned Ok for a network Namespace in the non-default directory
C14_Witness ==
    /\ spc[1] = "ok" /\ ns[1].ns_type = "Net"
    /\ ns[1].path = <<"tmp", "ns", "net">>
    /\ PersistedFrom(1, <<"proc", ParentPid, "task", Tid(1), "ns">>)

\* setup_in_userns returned Ok for a user namespace and a network dependent
C14_WitnessUserns ==
    /\ presult = "ok" /\ Len(Nses) > 0
    /\ ns[Userns].ns_type = "User" /\ ns[Nses[1]].ns_type = "Net"
    /\ PersistedFrom(Userns, <<"proc", ChildPid, "ns">>)
    /\ PersistedFrom(Nses[1], <<"proc", ChildPid, "ns">>)

\* failures of an OS call made by setup
OsFailures ==
    {"mkdir_fail", "create_fail", "open_fail", "unshare_fail",
     "sethostname_fail", "mount_fail"}

\* setup call j returns in this step
SetupReturns(j) == spc[j] \in {"join_ok", "join_err", "idle"} /\ spc'[j] \in {"ok", "err"}

\* call j started on a target left by earlier calls of the same kind on the
\* same directory: the file was there, nothing was mounted on it, and every
\* such call had returned
Repeated(j) ==
    /\ seen[j].file /\ ~seen[j].mounted
    /\ seen[j].prev # {} /\ seen[j].prev \subseteq {"ok", "err"}

SameTarget(i, j) ==
    /\ i # j /\ own[i] # "unbuilt"
    /\ ns[i].ns_type = ns[j].ns_type
    /\ ns[i].persistent_ns_dir = ns[j].persistent_ns_dir

\* C15: a setup that starts on a directory and target file left by an earlier
\* setup of the same kind on the same directory (one that returned Ok and was
\* unmounted, or one that failed after creating them) returns Err only when
\* one of its own OS calls fails, and otherwise returns Ok with the path the
\* earlier setup had.
C15_SetupRepeatable ==
    [][\A j \in NsIds :
         (SetupReturns(j) /\ Repeated(j)') =>
             /\ spc'[j] = "err" => sfail'[j] \in OsFailures
             /\ spc'[j] = "ok" =>
                   \A i \in NsIds :
                       SameTarget(i, j) =>
                           /\ ns'[j].path = ns[i].persistent_ns_dir
                                               \o <<KindName(ns[i].ns_type)>>
                           /\ spc[i] = "ok" => ns'[j].path = ns[i].path
      ]_vars

\* call 1 returned Ok and its path was unmounted, then call 2 of the same
\* kind on the same directory started and returned Ok with the same path
C15_Witness ==
    /\ spc[1] = "ok" /\ spc[2] = "ok"
    /\ seen[2].file /\ ~seen[2].mounted /\ seen[2].prev = {"ok"}
    /\ ns[2].path = ns[1].path
    /\ mnt = {[src |-> <<"proc", ParentPid, "task", Tid(2), "ns",
                         KindName(ns[2].ns_type)>>,
               dst |-> ns[2].path]}

\* call 1 failed at its mount, leaving directory and file, then call 2 of the
\* same kind on the same directory started and returned Ok
C15_WitnessAfterFailure ==
    /\ spc[1] = "err" /\ sfail[1] = "mount_fail" /\ spc[2] = "ok"
    /\ seen[2].file /\ ~seen[2].mounted /\ seen[2].prev = {"err"}
    /\ ns[2].path = ns[1].path

\* calls i and j are for two different kinds, neither of them PID
DifferentKinds(i, j) ==
    /\ i # j /\ own[i] # "unbuilt" /\ own[j] # "unbuilt"
    /\ ns[i].ns_type # ns[j].ns_type
    /\ ns[i].ns_type # "Pid" /\ ns[j].ns_type # "Pid"

\* the worker of call i unshares in this step
Unshares(i) == spc[i] = "unshare" /\ tns'[Tid(i)] # tns[Tid(i)]

ThreadLink(i) == <<"proc", ParentPid, "task", Tid(i), "ns">>

C17_MappingFailureStops ==
    failed.parent = "write_mappings" =>
        /\ ppc = "returned" /\ presult = "err"
        /\ pipeB = << >>
        /\ mnt = {}
        /\ cpc \notin {"setid", "unshare_dep", "write2", "read2", "exit", "exited"}
        /\ cid = "orig" /\ ~IsSome(chost)
        /\ cns \in {<< >>, <<get_flags(ns[Userns].ns_type)>>}

\* the uid mapping was written, the write of the gid mapping failed, and the
\* child, in its user namespace, waits for the token in read_sync
C17_Witness ==
    /\ failed.parent = "write_mappings"
    /\ \E w \in idmap : w.path = <<"proc", ChildPid, "uid_map">>
    /\ cpc = "read1" /\ cns = <<"CLONE_NEWUSER">> /\ child = "alive"
    /\ "pwfd" \in pfds

\* the worker thread of call i has mounted its namespace link
MountedBy(i) == \E m \in mnt : m.src[2] = ParentPid /\ m.src[4] = Tid(i)

SetsHostname(i) == ns[i].ns_type = "Uts" /\ IsSome(ns[i].hostname)

\* C18: in the worker of each setup call the steps run in the order open,
\* unshare, sethostname (only for UTS with a hostname), mount: the thread has
\* unshared only after its open, and only the flag of its kind; it has set a
\* hostname only after unsharing and only when the kind is UTS with a
\* hostname; its mount exists only after the unshare and, when one is due,
\* the sethostname; after a failed open nothing is unshared, after a failed
\* unshare or sethostname nothing is mounted, and a call with a failed step
\* returns Err.
C18_WorkerOrder ==
    \A i \in NsIds :
        /\ spc[i] \in {"idle", "open"} => tns[Tid(i)] = << >>
        /\ tns[Tid(i)] \in {<< >>, <<get_flags(ns[i].ns_type)>>}
        /\ IsSome(thost[i]) =>
              /\ SetsHostname(i) /\ thost[i] = ns[i].hostname
              /\ tns[Tid(i)] # << >>
        /\ MountedBy(i) =>
              /\ tns[Tid(i)] # << >>
              /\ SetsHostname(i) => IsSome(thost[i])
        /\ sfail[i] = "open_fail" => tns[Tid(i)] = << >>
        /\ sfail[i] \in {"open_fail", "unshare_fail", "sethostname_fail"} =>
              ~MountedBy(i)
        /\ sfail[i] # "none" => spc[i] \in {"join_err", "err"}
        /\ spc[i] \in {"join_ok", "ok"} => sfail[i] = "none"

\* a UTS call with a hostname unshared, failed to set the hostname and
\* returned Err without a mount
C18_Witness ==
    /\ spc[1] = "err" /\ sfail[1] = "sethostname_fail"
    /\ tns[Tid(1)] = <<"CLONE_NEWUTS">> /\ ~IsSome(thost[1])
    /\ ~MountedBy(1)
    /\ PathJoin(ns[1].persistent_ns_dir, "uts") \in files

\* C20: the forked child never returns from setup_in_userns to its caller:
\* at every moment it has not started, is inside the call (running or blocked
\* in a read), or has ended the process with exit.
C20_ChildNeverReturns ==
    /\ cpc # "returned"
    /\ cresult # "err"

\* on a return with Ok the parent holds none of the four descriptors
C21_ClosedOnSuccess == presult = "ok" => pfds = {}

\* C21: whenever setup_in_userns has returned in the parent, with Ok or with
\* any Err, none of the pipe descriptors prfd, cwfd, crfd, pwfd made by the
\* call is open in the parent.
C21_NoDescriptorLeft == ppc = "returned" => pfds = {}

\* the unread tokens of a pipe are the next ones its reader will consume:
\* with n reads done, the j-th unread token is token n + j of the writer
NextInOrder(pipe, n) == \A j \in 1..Len(pipe) : pipe[j].seq = n + j

\* what the writer has done when its k-th token is unread in the pipe
ChildTokenMeans(k) ==
    IF k = 1 THEN cns = <<get_flags(ns[Userns].ns_type)>> /\ cid = "orig"
    ELSE cns = ExpectedFlags /\ cid = "root"

ParentTokenMeans(k) ==
    IF k = 1 THEN AllMapped /\ mnt = {}
    ELSE AllMapped /\ AllMounted

\* C22: each pipe holds at most one unread token; no token is lost; the
\* unread token of a pipe is the one its reader's next read is due to consume
\* (the k-th read gets the k-th token), the child's first token standing for
\* 'user namespace created' and its second for 'dependent namespaces
\* created', the parent's first for 'mappings written' and its second for
\* 'persisted'; no side sends more than two tokens, and in a complete run
\* (the parent returned Ok and the child ended with exit) each side has sent
\* two tokens and read two.
C22_TokenDiscipline ==
    /\ Len(pipeA) <= 1 /\ Len(pipeB) <= 1
    /\ sent.child = rcvd.parent + Len(pipeA)
    /\ sent.parent = rcvd.child + Len(pipeB)
    /\ NextInOrder(pipeA, rcvd.parent) /\ NextInOrder(pipeB, rcvd.child)
    /\ \A j \in 1..Len(pipeA) : ChildTokenMeans(pipeA[j].seq)
    /\ \A j \in 1..Len(pipeB) : ParentTokenMeans(pipeB[j].seq)
    /\ sent.parent <= 2 /\ sent.child <= 2
    /\ (presult = "ok" /\ cpc = "exited") =>
          /\ sent = [parent |-> 2, child |-> 2]
          /\ rcvd = [parent |-> 2, child |-> 2]

\* a complete run with a dependent namespace: two tokens went each way
C22_Witness ==
    /\ presult = "ok" /\ cpc = "exited" /\ Len(Nses) > 0
    /\ sent = [parent |-> 2, child |-> 2] /\ rcvd = [parent |-> 2, child |-> 2]
    /\ pipeA = << >> /\ pipeB = << >>

====
